---- MODULE Spec2Model ----
(***************************************************************************)
(* Job-Finder (src/main.py): keyword extraction, provider query, semantic  *)
(* ranking of postings and the /search request handler.                    *)
(*                                                                         *)
(* Python strings that the code inspects character by character (lower,    *)
(* strip, split, join, replace, date parsing) are sequences of one-        *)
(* character strings.  Strings the code only stores and compares (posting  *)
(* titles, employer names) are TLA+ strings.  A posting record (a dict) is *)
(* a function from field names to values.                                  *)
(***************************************************************************)
EXTENDS Integers, Sequences, FiniteSets, TLC

VARIABLES
    pc,            \* position of the single call under study
    keywords,      \* what kw_model.extract_keywords returned: <<phrase, score>> pairs
    top_n,         \* extract_keywords' top_n argument
    kw_ret,        \* what extract_keywords returned
    city,          \* fetch_jobs_from_api arguments
    country,
    date_posted,
    querystring,   \* the params dict handed to requests.get
    fetch_ret,     \* outcome of fetch_jobs_from_api: a returned value or a raised error
    jobs_in,       \* the posting list as it was on entry to match_jobs_semantic
    jobs,          \* the posting list object (mutated in place)
    similarity,    \* cosine similarity of the reference text and each title, in 1/SimRes
    rank_ret,      \* outcome of match_jobs_semantic
    encode_calls,  \* number of model.encode calls made
    order,         \* for each returned position, the record's position on entry
    rpc,           \* per request: position of the /search handler
    response,      \* per request: what the handler answered
    csv_file,      \* contents of the file job_results.csv
    model          \* the loaded SentenceTransformer

vars == << pc, keywords, top_n, kw_ret, city, country, date_posted, querystring,
           fetch_ret, jobs_in, jobs, similarity, rank_ret, encode_calls, order,
           rpc, response, csv_file, model >>

-----------------------------------------------------------------------------
(* Bounds of the model *)

MaxCand == 3
MaxTopN == 2
MaxJobs == 3
SimRes == 3
NReq == 2

-----------------------------------------------------------------------------
(* Python built-ins used by the code *)

Min(a, b) == IF a < b THEN a ELSE b

Max(a, b) == IF a > b THEN a ELSE b

UpperCase == << "A", "B", "C", "D", "E", "F", "G", "H", "I", "J", "K", "L", "M",
                "N", "O", "P", "Q", "R", "S", "T", "U", "V", "W", "X", "Y", "Z" >>

LowerCase == << "a", "b", "c", "d", "e", "f", "g", "h", "i", "j", "k", "l", "m",
                "n", "o", "p", "q", "r", "s", "t", "u", "v", "w", "x", "y", "z" >>

Whitespace == {" ", "\t", "\n"}

\* str.lower() on one character
LowerChar(c) ==
    IF \E i \in 1..Len(UpperCase) : UpperCase[i] = c
    THEN LowerCase[CHOOSE i \in 1..Len(UpperCase) : UpperCase[i] = c]
    ELSE c

\* str.lower()
Lower(s) == [i \in 1..Len(s) |-> LowerChar(s[i])]

\* a strip() that trims only the leading whitespace
Strip_leading(s) ==
    LET keep == {i \in 1..Len(s) : s[i] \notin Whitespace}
    IN  IF keep = {} THEN << >>
        ELSE SubSeq(s, CHOOSE i \in keep : \A j \in keep : i <= j, Len(s))

\* str.strip(): leading and trailing whitespace removed
Strip(s) ==
    LET keep == {i \in 1..Len(s) : s[i] \notin Whitespace}
    IN  IF keep = {} THEN << >>
        ELSE LET lo == CHOOSE i \in keep : \A j \in keep : i <= j
                 hi == CHOOSE i \in keep : \A j \in keep : i >= j
             IN  SubSeq(s, lo, hi)

\* str.split() with no separator: the maximal runs of non-whitespace, in order
RECURSIVE SplitFrom(_, _, _)
SplitFrom(s, i, cur) ==
    IF i > Len(s)
    THEN IF cur = << >> THEN << >> ELSE << cur >>
    ELSE IF s[i] \in Whitespace
         THEN IF cur = << >> THEN SplitFrom(s, i + 1, << >>)
              ELSE << cur >> \o SplitFrom(s, i + 1, << >>)
         ELSE SplitFrom(s, i + 1, Append(cur, s[i]))

Split(s) == SplitFrom(s, 1, << >>)

\* a join that drops the separator
RECURSIVE Join_nosep(_, _)
Join_nosep(sep, parts) ==
    IF parts = << >> THEN << >>
    ELSE parts[1] \o Join_nosep(sep, Tail(parts))

\* sep.join(parts)
RECURSIVE Join(_, _)
Join(sep, parts) ==
    IF parts = << >> THEN << >>
    ELSE IF Len(parts) = 1 THEN parts[1]
    ELSE parts[1] \o sep \o Join(sep, Tail(parts))

\* seq[:n]
Prefix(s, n) ==
    IF n >= 0 THEN SubSeq(s, 1, Min(n, Len(s)))
    ELSE SubSeq(s, 1, Max(Len(s) + n, 0))

\* dict.get(key, default)
Get(d, key, default) == IF key \in DOMAIN d THEN d[key] ELSE default

\* an assignment that replaces the record by the one field
SetItem_only(d, key, value) == [k \in {key} |-> value]

\* d[key] = value
SetItem(d, key, value) ==
    [k \in DOMAIN d \cup {key} |-> IF k = key THEN value ELSE d[k]]

Range(s) == {s[i] : i \in 1..Len(s)}

-----------------------------------------------------------------------------
(* Keyword extraction *)

custom_stopwords ==
    {
      <<"k", "n", "o", "w">>,
      <<"k", "n", "o", "w", "i", "n", "g">>,
      <<"k", "n", "o", "w", "l", "e", "d", "g", "e">>,
      <<"f", "a", "m", "i", "l", "i", "a", "r">>,
      <<"f", "a", "m", "i", "l", "i", "a", "r", "i", "t", "y">>,
      <<"s", "k", "i", "l", "l", "e", "d">>,
      <<"s", "k", "i", "l", "l">>,
      <<"s", "k", "i", "l", "l", "s">>,
      <<"a", "b", "i", "l", "i", "t", "y">>,
      <<"a", "b", "i", "l", "i", "t", "i", "e", "s">>,
      <<"c", "a", "p", "a", "b", "l", "e">>,
      <<"c", "a", "p", "a", "b", "i", "l", "i", "t", "y">>,
      <<"p", "r", "o", "f", "i", "c", "i", "e", "n", "t">>,
      <<"p", "r", "o", "f", "i", "c", "i", "e", "n", "c", "y">>,
      <<"e", "x", "p", "e", "r", "t">>,
      <<"e", "x", "p", "e", "r", "t", "i", "s", "e">>,
      <<"e", "x", "p", "e", "r", "i", "e", "n", "c", "e", "d">>,
      <<"e", "x", "p", "e", "r", "i", "e", "n", "c", "e">>,
      <<"w", "o", "r", "k", "i", "n", "g">>,
      <<"w", "o", "r", "k">>,
      <<"w", "o", "r", "k", "e", "d">>,
      <<"w", "o", "r", "k", "s">>,
      <<"g", "o", "o", "d">>,
      <<"s", "t", "r", "o", "n", "g">>,
      <<"e", "x", "c", "e", "l", "l", "e", "n", "t">>,
      <<"b", "a", "c", "k", "g", "r", "o", "u", "n", "d">>,
      <<"u", "n", "d", "e", "r", "s", "t", "a", "n", "d", "i", "n", "g">>,
      <<"m", "o", "t", "i", "v", "a", "t", "e", "d">>,
      <<"d", "r", "i", "v", "e", "n">>,
      <<"p", "a", "s", "s", "i", "o", "n", "a", "t", "e">>,
      <<"e", "n", "t", "h", "u", "s", "i", "a", "s", "t", "i", "c">>,
      <<"d", "e", "d", "i", "c", "a", "t", "e", "d">>,
      <<"c", "o", "m", "m", "i", "t", "t", "e", "d">>,
      <<"i", "n", "n", "o", "v", "a", "t", "i", "v", "e">>,
      <<"c", "r", "e", "a", "t", "i", "v", "e">>,
      <<"r", "e", "s", "p", "o", "n", "s", "i", "b", "l", "e">>,
      <<"h", "a", "r", "d", "w", "o", "r", "k", "i", "n", "g">>,
      <<"s", "e", "l", "f">>,
      <<"l", "e", "a", "r", "n", "e", "r">>,
      <<"l", "e", "a", "r", "n", "i", "n", "g">>,
      <<"a", "d", "a", "p", "t", "a", "b", "l", "e">>,
      <<"f", "l", "e", "x", "i", "b", "l", "e">>,
      <<"c", "o", "l", "l", "a", "b", "o", "r", "a", "t", "i", "v", "e">>,
      <<"t", "e", "a", "m">>,
      <<"p", "l", "a", "y", "e", "r">>,
      <<"r", "e", "s", "u", "l", "t", "s">>,
      <<"o", "r", "i", "e", "n", "t", "e", "d">>,
      <<"f", "o", "c", "u", "s", "e", "d">>,
      <<"f", "a", "s", "t">>,
      <<"q", "u", "i", "c", "k">>,
      <<"e", "t", "c">>,
      <<"o", "t", "h", "e", "r", "s">>,
      <<"t", "h", "i", "n", "g", "s">>,
      <<"v", "a", "r", "i", "o", "u", "s">>
    }

\* a filter that compares the whole phrase, not its tokens, with the noise words
HasStopword_whole(kw_clean) == kw_clean \in custom_stopwords

\* any(stop in kw_clean.split() for stop in custom_stopwords)
HasStopword(kw_clean) ==
    \E stop \in custom_stopwords : stop \in Range(Split(kw_clean))

\* the for loop of extract_keywords, from candidate i on
RECURSIVE KwLoop(_, _, _, _)
KwLoop(kws, i, unique_keywords, seen) ==
    IF i > Len(kws) THEN unique_keywords
    ELSE LET kw == kws[i][1]
             kw_clean == Strip(Lower(kw))
         IN  IF HasStopword(kw_clean)
             THEN KwLoop(kws, i + 1, unique_keywords, seen)
             ELSE IF kw_clean \notin seen
                  THEN KwLoop(kws, i + 1, Append(unique_keywords, kw_clean),
                              seen \cup {kw_clean})
                  ELSE KwLoop(kws, i + 1, unique_keywords, seen)

\* an extract_keywords that forgets the final [:top_n]
extract_keywords_unsliced(kws, n) == KwLoop(kws, 1, << >>, {})

\* extract_keywords, given what the phrase model returned for the text
extract_keywords(kws, n) == Prefix(KwLoop(kws, 1, << >>, {}), n)

\* Phrases the phrase model may hand back
KwPool ==
    { <<"p", "y", "t", "h", "o", "n">>,
      <<"P", "y", "t", "h", "o", "n", " ">>,
      <<"s", "t", "r", "o", "n", "g", " ", "p", "y", "t", "h", "o", "n">>,
      <<"S", "k", "i", "l", "l", "s">>,
      <<" ", "S", "Q", "L">>,
      <<"t", "e", "a", "m", "w", "o", "r", "k">>,
      <<"d", "a", "t", "a", " ", "s", "c", "i", "e", "n", "c", "e">> }

SeqsUpTo(S, n) == UNION {[1..k -> S] : k \in 0..n}

\* the model's (phrase, score) pairs, best score first
WithScores(phrases) == [i \in 1..Len(phrases) |-> <<phrases[i], Len(phrases) - i>>]

CandidateLists == {WithScores(p) : p \in SeqsUpTo(KwPool, MaxCand)}

None == << >>

KwIdle == keywords = None /\ top_n = 0 /\ kw_ret = None

FetchIdle ==
    /\ city = None /\ country = None /\ date_posted = None
    /\ querystring = None /\ fetch_ret = None

RankIdle ==
    /\ jobs_in = None /\ jobs = None /\ similarity = None
    /\ rank_ret = None /\ encode_calls = 0 /\ order = None

ReqIdle == rpc = None /\ response = None /\ csv_file = None

kwVars == << keywords, top_n, kw_ret >>
fetchVars == << city, country, date_posted, querystring, fetch_ret >>
rankVars == << jobs_in, jobs, similarity, rank_ret, encode_calls, order >>
reqVars == << rpc, response, csv_file >>

ModelName == "all-MiniLM-L12-v2"

InitKw ==
    /\ pc = "extract"
    /\ keywords \in CandidateLists
    /\ top_n \in 0..MaxTopN
    /\ kw_ret = None
    /\ model = ModelName
    /\ FetchIdle /\ RankIdle /\ ReqIdle

ExtractKeywords ==
    /\ pc = "extract"
    /\ kw_ret' = extract_keywords(keywords, top_n)
    /\ pc' = "done"
    /\ UNCHANGED << keywords, top_n, model, fetchVars, rankVars, reqVars >>

NextKw == ExtractKeywords

SpecKw == InitKw /\ [][NextKw]_vars

-----------------------------------------------------------------------------
(* Postings as the provider returns them *)

PostedAtIso ==
    <<"2", "0", "2", "5", "-", "0", "8", "-", "2", "7", "T",
      "0", "0", ":", "0", "0", ":", "0", "0", ".", "0", "0", "0", "Z">>

PostedAtOdd == <<"y", "e", "s", "t", "e", "r", "d", "a", "y">>

JobPool ==
    { [job_title |-> "Senior Python Engineer", employer_name |-> "Acme",
       job_posted_at_datetime_utc |-> PostedAtIso],
      [job_title |-> "Baker", employer_name |-> "Acme"],
      [employer_name |-> "Initech", job_posted_at_datetime_utc |-> PostedAtOdd],
      [job_title |-> "Senior Python Engineer", employer_name |-> "Globex",
       match_score |-> 4200] }

\* the titles the encoder is asked about ("" stands in for a missing title)
Titles == {"", "Senior Python Engineer", "Baker"}

-----------------------------------------------------------------------------
(* Fetching postings from the provider *)

DefaultTopN == 5

\* lines 81-98: the params dict built from the extracted keywords and the form fields
BuildQuerystring(kws, cty, ctry, posted) ==
    LET kw == extract_keywords(kws, DefaultTopN)
        query == Join(<<" ">>, kw)
    IN  [query |-> IF cty # << >> THEN query \o <<" ">> \o cty ELSE query,
         page |-> "1",
         num_pages |-> "1",
         date_posted |-> IF posted # "" THEN posted ELSE "all",
         country |-> IF ctry # "" THEN ctry ELSE "in",
         language |-> "en"]

\* what the network call can end in: requests.get raising, or a response with a
\* status code and a body
HttpOutcomes ==
    {[kind |-> "exception", status_code |-> 0, body |-> "none", data |-> << >>]}
    \cup
    {[kind |-> "response", status_code |-> s, body |-> b, data |-> << >>] :
        s \in {200, 204, 404, 500}, b \in {"json_no_data", "json_data_null", "not_json"}}
    \cup
    {[kind |-> "response", status_code |-> s, body |-> "json_data", data |-> d] :
        s \in {200, 204, 404, 500}, d \in SeqsUpTo(JobPool, 1)}

\* lines 102-107: the call's outcome for the caller
HandleResponse(http) ==
    IF http.kind = "exception"
    THEN [kind |-> "raise", error |-> "RequestException", value |-> << >>]
    ELSE IF http.status_code = 200
         THEN CASE http.body = "json_data" ->
                       [kind |-> "return", error |-> "", value |-> http.data]
                [] http.body = "json_no_data" ->
                       [kind |-> "return", error |-> "", value |-> << >>]
                [] http.body = "json_data_null" ->
                       [kind |-> "return_none", error |-> "", value |-> << >>]
                [] OTHER ->
                       [kind |-> "raise", error |-> "JSONDecodeError", value |-> << >>]
         ELSE [kind |-> "return", error |-> "", value |-> << >>]

Cities == {<< >>, <<"P", "u", "n", "e">>}

InitFetch ==
    /\ pc = "fetch"
    /\ keywords \in CandidateLists
    /\ top_n = DefaultTopN
    /\ kw_ret = None
    /\ city \in Cities
    /\ country \in {"", "us"}
    /\ date_posted \in {"", "week"}
    /\ querystring = None
    /\ fetch_ret = None
    /\ model = ModelName
    /\ RankIdle /\ ReqIdle

BuildQuery ==
    /\ pc = "fetch"
    /\ kw_ret' = extract_keywords(keywords, DefaultTopN)
    /\ querystring' = BuildQuerystring(keywords, city, country, date_posted)
    /\ pc' = "get"
    /\ UNCHANGED << keywords, top_n, city, country, date_posted, fetch_ret,
                    model, rankVars, reqVars >>

HttpGet ==
    /\ pc = "get"
    /\ \E http \in HttpOutcomes : fetch_ret' = HandleResponse(http)
    /\ pc' = "done"
    /\ UNCHANGED << kwVars, city, country, date_posted, querystring,
                    model, rankVars, reqVars >>

NextFetch == BuildQuery \/ HttpGet

SpecFetch == InitFetch /\ [][NextFetch]_vars

-----------------------------------------------------------------------------
(* Semantic matching *)

\* round(): nearest integer to a / b (b > 0), halves to the even neighbour
RoundDiv(a, b) ==
    LET q == a \div b
        r == a % b
    IN  IF 2 * r < b THEN q
        ELSE IF 2 * r > b THEN q + 1
        ELSE IF q % 2 = 0 THEN q ELSE q + 1

\* a score computed with the wrong scale
Score_scaled(k) == RoundDiv(k * 1000 * 100, SimRes)

\* round(float(scores[i]) * 100, 2) for a similarity of k / SimRes, in hundredths
Score(k) == RoundDiv(k * 100 * 100, SimRes)

\* insertion that puts a record before the records of equal score
InsertDesc_before(sorted, i, scores) ==
    LET later == {p \in 1..Len(sorted) : scores[sorted[p]] <= scores[i]}
    IN  IF later = {} THEN Append(sorted, i)
        ELSE LET p == CHOOSE x \in later : \A y \in later : x <= y
             IN  SubSeq(sorted, 1, p - 1) \o << i >> \o SubSeq(sorted, p, Len(sorted))

\* list.sort(key=..., reverse=True) keeps equal keys in their original order:
\* record i, which follows every record already placed, goes before the first
\* placed record of strictly smaller score
InsertDesc(sorted, i, scores) ==
    LET later == {p \in 1..Len(sorted) : scores[sorted[p]] < scores[i]}
    IN  IF later = {} THEN Append(sorted, i)
        ELSE LET p == CHOOSE x \in later : \A y \in later : x <= y
             IN  SubSeq(sorted, 1, p - 1) \o << i >> \o SubSeq(sorted, p, Len(sorted))

\* the positions 1..n of the list, as jobs.sort leaves them
RECURSIVE SortedOrder(_, _)
SortedOrder(scores, n) ==
    IF n = 0 THEN << >>
    ELSE InsertDesc(SortedOrder(scores, n - 1), n, scores)

\* lines 114-120: every record with its match_score written
Scored(js, title_key, sim) ==
    [i \in 1..Len(js) |->
        SetItem(js[i], "match_score", Score(sim[Get(js[i], title_key, "")]))]

\* a ranker without the early return: the similarity of no titles raises
match_jobs_semantic_noguard(js, title_key, sim) ==
    IF js = << >>
    THEN [kind |-> "raise", value |-> << >>, list |-> js, calls |-> 2, order |-> << >>]
    ELSE LET scored == Scored(js, title_key, sim)
             perm == SortedOrder([i \in 1..Len(js) |-> scored[i]["match_score"]], Len(js))
             sorted == [p \in 1..Len(js) |-> scored[perm[p]]]
         IN  [kind |-> "return", value |-> sorted, list |-> sorted, calls |-> 2,
              order |-> perm]

\* match_jobs_semantic: the outcome, the list object afterwards, the number of
\* model.encode calls and the permutation the sort applied
match_jobs_semantic(js, title_key, sim) ==
    IF js = << >>
    THEN [kind |-> "return", value |-> << >>, list |-> js, calls |-> 0, order |-> << >>]
    ELSE LET scored == Scored(js, title_key, sim)
             perm == SortedOrder([i \in 1..Len(js) |-> scored[i]["match_score"]], Len(js))
             sorted == [p \in 1..Len(js) |-> scored[perm[p]]]
         IN  [kind |-> "return", value |-> sorted, list |-> sorted, calls |-> 2,
              order |-> perm]

\* the network outcomes whose data is one of the given posting lists
HttpOutcomesWith(lists) ==
    {h \in HttpOutcomes : h.body # "json_data"}
    \cup
    {[kind |-> "response", status_code |-> s, body |-> "json_data", data |-> d] :
        s \in {200, 204, 404, 500}, d \in lists}

Similarities == [Titles -> (0 - SimRes)..SimRes]

InitRank ==
    /\ pc = "get"
    /\ similarity \in Similarities
    /\ fetch_ret = None
    /\ jobs_in = None /\ jobs = None /\ rank_ret = None
    /\ encode_calls = 0 /\ order = None
    /\ city = None /\ country = None /\ date_posted = None /\ querystring = None
    /\ model = ModelName
    /\ KwIdle /\ ReqIdle

\* search, line 171: fetch_jobs_from_api answers or raises
FetchJobs ==
    /\ pc = "get"
    /\ \E http \in HttpOutcomesWith(SeqsUpTo(JobPool, MaxJobs)) :
           LET r == HandleResponse(http)
           IN  /\ fetch_ret' = r
               /\ IF r.kind = "raise"
                  THEN pc' = "error" /\ UNCHANGED << jobs_in, jobs >>
                  ELSE pc' = "rank" /\ jobs_in' = r.value /\ jobs' = r.value
    /\ UNCHANGED << kwVars, city, country, date_posted, querystring, similarity,
                    rank_ret, encode_calls, order, model, reqVars >>

\* search, line 172: match_jobs_semantic(description, jobs_api)
MatchJobs ==
    /\ pc = "rank"
    /\ LET r == match_jobs_semantic(jobs, "job_title", similarity)
       IN  /\ rank_ret' = [kind |-> r.kind, value |-> r.value]
           /\ jobs' = r.list
           /\ encode_calls' = encode_calls + r.calls
           /\ order' = r.order
           /\ pc' = IF r.kind = "raise" THEN "error" ELSE "done"
    /\ UNCHANGED << kwVars, fetchVars, jobs_in, similarity, model, reqVars >>

NextRank == FetchJobs \/ MatchJobs

SpecRank == InitRank /\ [][NextRank]_vars

-----------------------------------------------------------------------------
(* Date formatting *)

Digits == << "0", "1", "2", "3", "4", "5", "6", "7", "8", "9" >>

IsDigit(c) == \E i \in 1..10 : Digits[i] = c

DigitValue(c) == (CHOOSE i \in 1..10 : Digits[i] = c) - 1

\* the number written by the digits s[a..b]; -1 when they are not all digits
Number(s, a, b) ==
    IF b > Len(s) \/ \E i \in a..b : ~IsDigit(s[i]) THEN 0 - 1
    ELSE LET RECURSIVE val(_)
             val(i) == IF i < a THEN 0 ELSE 10 * val(i - 1) + DigitValue(s[i])
         IN  val(b)

DaysInMonth(y, m) ==
    IF m \in {4, 6, 9, 11} THEN 30
    ELSE IF m # 2 THEN 31
    ELSE IF (y % 4 = 0 /\ y % 100 # 0) \/ y % 400 = 0 THEN 29 ELSE 28

\* the time part after the separator: HH[:MM[:SS[.fff[fff]]]], no UTC offset
TimeOk(t) ==
    /\ Len(t) \in {2, 5, 8, 12, 15}
    /\ Number(t, 1, 2) \in 0..23
    /\ Len(t) >= 5 => t[3] = ":" /\ Number(t, 4, 5) \in 0..59
    /\ Len(t) >= 8 => t[6] = ":" /\ Number(t, 7, 8) \in 0..59
    /\ Len(t) >= 12 => t[9] = "." /\ Number(t, 10, Len(t)) >= 0

\* datetime.fromisoformat: YYYY-MM-DD, alone or followed by one separator
\* character and a time
IsoOk(s) ==
    /\ Len(s) = 10 \/ Len(s) >= 13
    /\ s[5] = "-" /\ s[8] = "-"
    /\ Number(s, 1, 4) >= 1
    /\ Number(s, 6, 7) \in 1..12
    /\ Number(s, 9, 10) \in 1..DaysInMonth(Number(s, 1, 4), Number(s, 6, 7))
    /\ Len(s) > 10 => TimeOk(SubSeq(s, 12, Len(s)))

MonthAbbr ==
    << <<"J", "a", "n">>, <<"F", "e", "b">>, <<"M", "a", "r">>, <<"A", "p", "r">>,
       <<"M", "a", "y">>, <<"J", "u", "n">>, <<"J", "u", "l">>, <<"A", "u", "g">>,
       <<"S", "e", "p">>, <<"O", "c", "t">>, <<"N", "o", "v">>, <<"D", "e", "c">> >>

\* format_date: "27 Aug 2025" for a parseable timestamp, the input otherwise
format_date(iso_date_str) ==
    LET s == SelectSeq(iso_date_str, LAMBDA c : c # "Z")
    IN  IF IsoOk(s)
        THEN SubSeq(s, 9, 10) \o <<" ">> \o MonthAbbr[Number(s, 6, 7)] \o <<" ">>
             \o SubSeq(s, 1, 4)
        ELSE iso_date_str

-----------------------------------------------------------------------------
(* The /search request handler and the CSV export *)

NotAvailable == <<"N", "/", "A">>

CsvHeader ==
    << "Title", "Company", "Location", "Source", "Match Score", "Date Posted", "Link" >>

\* the rows save_to_csv writes to job_results.csv (cell values, before csv's
\* own text conversion)
CsvContent(js) ==
    << CsvHeader >> \o
    [i \in 1..Len(js) |->
        << Get(js[i], "job_title", ""),
           Get(js[i], "employer_name", ""),
           Get(js[i], "job_city", ""),
           Get(js[i], "job_publisher", ""),
           Get(js[i], "match_score", ""),
           Get(js[i], "job_posted_at_datetime_utc", NotAvailable),
           Get(js[i], "job_apply_link", "") >>]

\* lines 174-179: the source tag and the display date of one record
Annotate(job) ==
    LET tagged == SetItem(job, "source", "API")
    IN  IF "job_posted_at_datetime_utc" \in DOMAIN tagged
           /\ tagged["job_posted_at_datetime_utc"] # << >>
        THEN SetItem(tagged, "date_posted",
                     format_date(tagged["job_posted_at_datetime_utc"]))
        ELSE SetItem(tagged, "date_posted", NotAvailable)

TopJobs == 10

Requests == 1..NReq

Blank == <<" ", " ">>

PythonDeveloper ==
    <<"p", "y", "t", "h", "o", "n", " ", "d", "e", "v", "e", "l", "o", "p", "e", "r">>

\* submitted forms
Forms ==
    { [description |-> Blank, city |-> << >>, state |-> "", country |-> "",
       date_posted |-> ""],
      [description |-> PythonDeveloper, city |-> << >>, state |-> "", country |-> "",
       date_posted |-> ""],
      [description |-> PythonDeveloper, city |-> <<"P", "u", "n", "e">>, state |-> "MH",
       country |-> "in", date_posted |-> "week"] }

\* what the provider may answer to a request
ProviderLists ==
    {<< >>} \cup {<< j >> : j \in JobPool} \cup
    {<< a, b >> : a \in {j \in JobPool : "job_title" \notin DOMAIN j},
                  b \in {j \in JobPool : "match_score" \in DOMAIN j}}

\* similarities of the description and the titles
SampleSimilarities ==
    { [t \in Titles |-> IF t = "" THEN 0 - 1 ELSE SimRes],
      [t \in Titles |-> IF t = "Baker" THEN 0 ELSE 1] }

\* the phrase model's answers for a description
SampleCandidates ==
    { WithScores(<< >>),
      WithScores(<< <<"p", "y", "t", "h", "o", "n">> >>) }

InitSearch ==
    /\ rpc = [r \in Requests |-> "received"]
    /\ response = [r \in Requests |-> None]
    /\ querystring = [r \in Requests |-> None]
    /\ csv_file = None
    /\ model = ModelName
    /\ pc = "serve"
    /\ city = None /\ country = None /\ date_posted = None /\ fetch_ret = None
    /\ KwIdle /\ RankIdle

\* the handler of POST /search for request r; it has no await, so it runs from
\* its first line to its return without another handler running in between
Search(r) ==
    /\ rpc[r] = "received"
    /\ \E form \in Forms :
        IF Strip(form.description) = << >>
        THEN /\ response' = [response EXCEPT ![r] =
                    [template |-> "index.html", status |-> 200,
                     error |-> "Please enter a job description."]]
             /\ rpc' = [rpc EXCEPT ![r] = "done"]
             /\ UNCHANGED << querystring, csv_file >>
        ELSE \E kws \in SampleCandidates, sim \in SampleSimilarities,
                http \in HttpOutcomesWith(ProviderLists) :
             LET sent == BuildQuerystring(kws, form.city, form.country, form.date_posted)
                 jobs_api == HandleResponse(http)
                 matched == match_jobs_semantic(jobs_api.value, "job_title", sim)
                 annotated == [i \in 1..Len(matched.value) |-> Annotate(matched.value[i])]
                 top_jobs == Prefix(annotated, TopJobs)
             IN  /\ querystring' = [querystring EXCEPT ![r] = sent]
                 /\ IF jobs_api.kind = "raise"
                    THEN /\ response' = [response EXCEPT ![r] =
                                [template |-> "", status |-> 500, error |-> jobs_api.error]]
                         /\ rpc' = [rpc EXCEPT ![r] = "failed"]
                         /\ UNCHANGED csv_file
                    ELSE /\ csv_file' = CsvContent(top_jobs)
                         /\ response' = [response EXCEPT ![r] =
                                [template |-> "results.html", status |-> 200,
                                 jobs |-> top_jobs, description |-> form.description,
                                 city |-> form.city, state |-> form.state,
                                 country |-> form.country,
                                 date_posted |-> form.date_posted]]
                         /\ rpc' = [rpc EXCEPT ![r] = "done"]
    /\ UNCHANGED << pc, kwVars, city, country, date_posted, fetch_ret, rankVars, model >>

NextSearch == \E r \in Requests : Search(r)

SpecSearch == InitSearch /\ [][NextSearch]_vars

-----------------------------------------------------------------------------
(* Properties of extract_keywords, stated without the code's helpers *)

\* the lower-cased, trimmed form of a raw phrase
Normalized(raw) ==
    LET solid == {i \in 1..Len(raw) : raw[i] \notin Whitespace}
        low(c) == IF \E i \in 1..26 : UpperCase[i] = c
                  THEN LowerCase[CHOOSE i \in 1..26 : UpperCase[i] = c]
                  ELSE c
    IN  IF solid = {} THEN << >>
        ELSE LET first == CHOOSE i \in solid : \A j \in solid : i <= j
                 last == CHOOSE i \in solid : \A j \in solid : j <= i
             IN  [k \in 1..(last - first + 1) |-> low(raw[first + k - 1])]

\* s holds a noise word as a whole whitespace-separated token
NoiseToken(s) ==
    \E a \in 1..Len(s) : \E b \in a..Len(s) :
        /\ SubSeq(s, a, b) \in custom_stopwords
        /\ a = 1 \/ s[a - 1] \in Whitespace
        /\ b = Len(s) \/ s[b + 1] \in Whitespace

Candidate(i) == Normalized(keywords[i][1])

\* candidates that pass the noise filter and are the first of their normalized form
Survivors ==
    {i \in 1..Len(keywords) :
        /\ ~NoiseToken(Candidate(i))
        /\ \A j \in 1..(i - 1) : Candidate(j) # Candidate(i)}

\* C4: extract_keywords returns no two equal normalized phrases and at most
\* top_n of them.
KwNoDupBounded ==
    pc = "done" =>
        /\ Len(kw_ret) <= top_n
        /\ \A i, j \in 1..Len(kw_ret) :
               i # j => Normalized(kw_ret[i]) # Normalized(kw_ret[j])

KwNoDupBoundedWitness ==
    /\ pc = "done"
    /\ top_n > 0
    /\ Len(kw_ret) = top_n
    /\ Cardinality(Survivors) > top_n
    /\ \E i, j \in 1..Len(keywords) :
           i < j /\ Candidate(i) = Candidate(j) /\ ~NoiseToken(Candidate(i))

\* C5: no returned keyphrase holds a noise word as a token; a candidate holding
\* one is dropped whole, and every returned phrase is a whole normalized
\* candidate, never a trimmed remainder of one.
KwNoNoise ==
    pc = "done" =>
        /\ \A k \in 1..Len(kw_ret) :
               /\ ~NoiseToken(kw_ret[k])
               /\ \E i \in 1..Len(keywords) : kw_ret[k] = Candidate(i)
        /\ \A i \in 1..Len(keywords) :
               NoiseToken(Candidate(i)) => Candidate(i) \notin Range(kw_ret)

KwNoNoiseWitness ==
    /\ pc = "done"
    /\ kw_ret # << >>
    /\ \E i \in 1..Len(keywords) :
           NoiseToken(Candidate(i)) /\ Candidate(i) \notin custom_stopwords

\* C10: extract_keywords returns exactly the first top_n surviving candidates,
\* normalized, in first-seen order; all of them when fewer than top_n survive.
KwExactPrefix ==
    pc = "done" =>
        /\ Len(kw_ret) = Min(top_n, Cardinality(Survivors))
        /\ \A k \in 1..Len(kw_ret) :
               \E i \in Survivors :
                   /\ Cardinality({j \in Survivors : j < i}) = k - 1
                   /\ kw_ret[k] = Candidate(i)

KwExactPrefixWitness ==
    /\ pc = "done"
    /\ Cardinality(Survivors) > 0
    /\ Cardinality(Survivors) < top_n
    /\ Len(kw_ret) = Cardinality(Survivors)
    /\ Cardinality(Survivors) < Len(keywords)

-----------------------------------------------------------------------------
(* Properties of fetch_jobs_from_api *)

\* offset in the query at which keyphrase i starts
RECURSIVE Start(_, _)
Start(ks, i) == IF i = 1 THEN 0 ELSE Start(ks, i - 1) + Len(ks[i - 1]) + 1

\* C3: fetch_jobs_from_api ends with a list value for every outcome of the
\* HTTP call and never propagates an error to its caller.
FetchNeverRaises ==
    pc = "done" => fetch_ret.kind = "return"

\* C8: the query is the keyphrases in order with single spaces between them,
\* followed by a space and the city when the city is non-empty, and by nothing
\* when it is empty.
QueryIsJoined ==
    pc \in {"get", "done"} =>
        LET ks == kw_ret
            n == Len(ks)
            q == querystring.query
            L == IF n = 0 THEN 0 ELSE Start(ks, n) + Len(ks[n])
        IN  /\ Len(q) = IF city # << >> THEN L + 1 + Len(city) ELSE L
            /\ \A i \in 1..n :
                   SubSeq(q, Start(ks, i) + 1, Start(ks, i) + Len(ks[i])) = ks[i]
            /\ \A i \in 1..(n - 1) : q[Start(ks, i) + Len(ks[i]) + 1] = " "
            /\ city # << >> =>
                   /\ q[L + 1] = " "
                   /\ SubSeq(q, L + 2, Len(q)) = city

QueryIsJoinedWitness ==
    /\ pc = "get"
    /\ Len(kw_ret) >= 2
    /\ city # << >>
    /\ Len(querystring.query) > Len(city)

-----------------------------------------------------------------------------
(* Properties of match_jobs_semantic *)

Ranked == pc = "done" /\ rank_ret.kind = "return"

\* the returned list holds exactly the records of the entry list, each once
SameRecords ==
    /\ Len(rank_ret.value) = Len(jobs_in)
    /\ Len(order) = Len(jobs_in)
    /\ {order[p] : p \in 1..Len(order)} = 1..Len(jobs_in)
    /\ \A p \in 1..Len(order) :
           DOMAIN rank_ret.value[p] = DOMAIN jobs_in[order[p]] \cup {"match_score"}

\* C1: the returned list is ordered by match_score, highest first, and records
\* of equal match_score keep the relative order they had in the input list.
RankSortedStable ==
    pc = "done" =>
        /\ rank_ret.kind = "return"
        /\ SameRecords
        /\ \A p, q \in 1..Len(rank_ret.value) :
               p < q =>
                   /\ rank_ret.value[p]["match_score"] >= rank_ret.value[q]["match_score"]
                   /\ rank_ret.value[p]["match_score"] = rank_ret.value[q]["match_score"]
                          => order[p] < order[q]

RankSortedStableWitness ==
    /\ Ranked
    /\ \E p, q \in 1..Len(rank_ret.value) :
           /\ p < q
           /\ rank_ret.value[p]["match_score"] = rank_ret.value[q]["match_score"]
           /\ rank_ret.value[p] # rank_ret.value[q]
    /\ \E p \in 1..Len(rank_ret.value) : order[p] # p

\* C2 as stated: every match_score lies in [0, 100] (in hundredths: 0..10000).
ScoreInZeroToHundred ==
    pc = "done" =>
        \A p \in 1..Len(rank_ret.value) :
            /\ rank_ret.value[p]["match_score"] >= 0
            /\ rank_ret.value[p]["match_score"] <= 100 * 100

\* C2 as amended: every match_score lies in [-100, 100] (in hundredths:
\* -10000..10000); it is not clamped at 0.
ScoreInSignedRange ==
    pc = "done" =>
        \A p \in 1..Len(rank_ret.value) :
            /\ rank_ret.value[p]["match_score"] >= 0 - 100 * 100
            /\ rank_ret.value[p]["match_score"] <= 100 * 100

ScoreInSignedRangeWitness ==
    /\ Ranked
    /\ \E p \in 1..Len(rank_ret.value) : rank_ret.value[p]["match_score"] < 0
    /\ \E p \in 1..Len(rank_ret.value) : rank_ret.value[p]["match_score"] = 100 * 100

\* C6 as stated: the same records come back, each with a match_score, and every
\* field a record had on entry has the value it had on entry.
RankKeepsEveryField ==
    pc = "done" /\ jobs_in # << >> =>
        /\ SameRecords
        /\ \A p \in 1..Len(rank_ret.value) :
               \A f \in DOMAIN jobs_in[order[p]] :
                   rank_ret.value[p][f] = jobs_in[order[p]][f]

\* C6 as amended: the same records come back, each with a match_score, and every
\* field other than match_score has the value it had on entry.
RankKeepsOtherFields ==
    pc = "done" /\ jobs_in # << >> =>
        /\ SameRecords
        /\ jobs = rank_ret.value
        /\ \A p \in 1..Len(rank_ret.value) :
               \A f \in DOMAIN jobs_in[order[p]] \ {"match_score"} :
                   rank_ret.value[p][f] = jobs_in[order[p]][f]

RankKeepsOtherFieldsWitness ==
    /\ Ranked
    /\ Len(jobs_in) >= 2
    /\ \E i \in 1..Len(jobs_in) : "match_score" \in DOMAIN jobs_in[i]
    /\ \E i \in 1..Len(jobs_in) : "job_title" \notin DOMAIN jobs_in[i]

\* C7: on an empty posting list match_jobs_semantic returns an empty list
\* without calling the encoder, so a fetch that failed into an empty list ends
\* in an empty result and not in an error.
RankEmptyNoEncode ==
    (pc \in {"done", "error"} /\ fetch_ret.kind # "raise" /\ jobs_in = << >>) =>
        /\ pc = "done"
        /\ rank_ret = [kind |-> "return", value |-> << >>]
        /\ encode_calls = 0

RankEmptyNoEncodeWitness ==
    /\ pc = "done"
    /\ fetch_ret.kind = "return"
    /\ jobs_in = << >>
    /\ rank_ret.value = << >>

-----------------------------------------------------------------------------
(* Properties of concurrent searches *)

\* C9: requests share no mutable state but the model, which is never written:
\* the export a finished search wrote is not overwritten by another search.
NoSharedMutableState ==
    /\ model = ModelName
    /\ \A r \in Requests :
           (rpc[r] = "done" /\ response[r].template = "results.html")
               => csv_file = CsvContent(response[r].jobs)

====
